---- MODULE Spec2Model ----
(***************************************************************************)
(* KBPublisherAgent.run (core/agents/kb_publisher.py): plan a KB article   *)
(* from an SOP with the chat function, normalize and validate the plan,    *)
(* write it to the article store (create or update), upload attachments    *)
(* and re-read the record.  One run per behaviour; every call to the chat  *)
(* function or to the store is one step, and what the callee answers is    *)
(* chosen by the environment.                                              *)
(***************************************************************************)
EXTENDS Integers, Sequences, FiniteSets, TLC

VARIABLES
  chat,                \* what self.chat answers: [kind, data]
  validate,            \* TRUE iff jsonschema was importable (module global `validate`)
  store_publish,       \* how the store would answer a transition to "published"
  args,                \* the arguments of run
  pc,                  \* position of run
  plan,                \* local `plan` of run
  result,              \* local `result` of run (a dict: its DOMAIN are its keys)
  error,               \* the exception run raised, "" if none
  calls,               \* the calls made on the store, in order
  record,              \* local `record` of _act_publish
  mode,                \* local `mode` of _act_publish
  sys_id,              \* local `sys_id` of _act_publish
  attachment_results   \* local `attachment_results` of _act_publish

vars == <<chat, validate, store_publish, args, pc, plan, result, error, calls,
          record, mode, sys_id, attachment_results>>

----------------------------------------------------------------------------
(* Bounds *)
MaxAttachments == 2
MaxPlanTags == 3
MaxCallerTags == 2

----------------------------------------------------------------------------
(* Python values *)

\* a key that is not in a dict
Absent == "<absent>"
\* Python None, JSON null
None == "<None>"

\* bool(v) of a string-or-None value; a missing key reads as None through .get
Truthy(v) == v \notin {Absent, None, ""}

\* d.get(key) of a value held with the Absent marker
Get(v) == IF v = Absent THEN None ELSE v

\* d.get(key, default)
GetOr(v, default) == IF v = Absent THEN default ELSE v

\* str.strip on the strings the model uses
strip(s) ==
  CASE s = "ops " -> "ops"
    [] s = " "    -> ""
    [] OTHER      -> s

SeqsUpTo(S, n) == UNION {[1..k -> S] : k \in 0..n}

----------------------------------------------------------------------------
(* Collaborators that are not part of kb_publisher.py *)

\* core.guards.kb_article_schema.sanitize_html: strips unsafe markup
sanitize_html(html) ==
  CASE html = "<p>x</p><script>" -> "<p>x</p>"
    [] OTHER                     -> html

\* jsonschema.validate(plan, KB_SCHEMA) passes: the required fields are strings
SchemaOk(p) ==
  /\ p.short_description \notin {Absent, None}
  /\ p.html \notin {Absent, None}
  /\ p.kb_base_sys_id \notin {Absent, None}

\* core.guards.kb_article_schema.content_fingerprint: a digest over the
\* ordered semantic fields short_description and html
content_fingerprint(d) ==
  <<GetOr(d.short_description, ""), GetOr(d.html, "")>>

\* sn.kb_create answers: a record with or without an identifier
KbCreateResponses == {[sys_id |-> s] : s \in {Absent, "", "new1"}}

\* sn.kb_update answers: a record with no, an empty, the same or another identifier
KbUpdateResponses(id) == {[sys_id |-> s] : s \in {Absent, "", id, "other9"}}

\* sn.kb_attach answers
KbAttachResponses == {[file_name |-> "stored"]}

\* sn.kb_get answers for a record written with short description sd, body html,
\* knowledge base kb and category cat: the fields as written, or lost
KbGetResponses(id, sd, html, kb, cat) ==
  {[sys_id |-> id, number |-> "KB0001", short_description |-> s, text |-> t,
    article_body |-> b, kb_knowledge_base |-> kb, category |-> c,
    valid_to |-> Absent] :
      s \in {sd, Absent}, t \in {html, ""}, b \in {Absent, "<p>old</p>"},
      c \in {cat, Absent}}

\* how the store would answer a transition of the record to "published";
\* run never asks for one
StorePublishAnswers == {"accepts", "rejects"}

\* the message of an exception of the store client
TransportErrors == {"HTTP 500"}

----------------------------------------------------------------------------
(* _plan_from_sop, lines 59-81 *)

\* (str(t).strip() for t in ts if str(t).strip())
RECURSIVE StripNonEmpty(_)
StripNonEmpty(ts) ==
  IF ts = <<>> THEN <<>>
  ELSE LET h == strip(Head(ts))
       IN (IF h = "" THEN <<>> ELSE <<h>>) \o StripNonEmpty(Tail(ts))

\* a loop that appends every tag, seen or not
Dedup_KeepAll(ts, seen) == ts

\* the loop over plan_tags with `seen`
RECURSIVE Dedup(_, _)
Dedup(ts, seen) ==
  IF ts = <<>> THEN <<>>
  ELSE IF Head(ts) \in seen THEN Dedup(Tail(ts), seen)
  ELSE <<Head(ts)>> \o Dedup(Tail(ts), seen \cup {Head(ts)})

\* data.setdefault("kb_base_sys_id", kb_base_sys_id)
DefaultKbBase(planValue, kb_base_sys_id) ==
  IF planValue = Absent THEN kb_base_sys_id ELSE planValue

\* if category and not data.get("category"): data["category"] = category
DefaultCategory(planValue, category) ==
  IF Truthy(category) /\ ~Truthy(planValue) THEN category ELSE planValue

\* plan_tags: the plan's tags when they are a list, then the caller's
PlanTags(data, tags) ==
  (IF data.tagsKind = "list" THEN StripNonEmpty(data.tags) ELSE <<>>)
    \o StripNonEmpty(tags)

plan_from_sop(data, kb_base_sys_id, category, tags) ==
  LET plan_tags == PlanTags(data, tags)
  IN [data EXCEPT
        !.kb_base_sys_id = DefaultKbBase(data.kb_base_sys_id, kb_base_sys_id),
        !.category = DefaultCategory(data.category, category),
        !.tagsKind = IF plan_tags # <<>> \/ data.tagsKind # "absent"
                     THEN "list" ELSE "absent",
        !.tags = IF plan_tags # <<>> THEN Dedup(plan_tags, {}) ELSE <<>>]

(* _normalize_plan, lines 83-92 *)
normalize_plan(p) ==
  [p EXCEPT
     !.html = sanitize_html(GetOr(p.html, "")),
     !.tagsKind = "list",
     !.tags = CASE p.tagsKind = "list"   -> StripNonEmpty(p.tags)
                [] p.tagsKind = "absent" -> <<>>
                [] OTHER -> IF Truthy(p.tags[1]) THEN <<strip(p.tags[1])>> ELSE <<>>]

\* a _validate_plan that swallows the violation
ValidateRaises_Swallowed(validator, p) == FALSE

(* _validate_plan, lines 94-100: TRUE iff it raises ValueError *)
ValidateRaises(validator, p) == validator /\ ~SchemaOk(p)

\* a fingerprint over the whole plan
RunFingerprint_WholePlan(p) ==
  <<GetOr(p.short_description, ""), GetOr(p.html, ""), p.category, p.tags>>

(* run, line 231 *)
RunFingerprint(p) == content_fingerprint(p)

(* run, line 236 *)
ResultMode(existing_sys_id) == IF Truthy(existing_sys_id) THEN "update" ELSE "create"

\* a run without the early return of line 241
AfterValidate_NoDryRun(publish_if_allowed) == "act"

(* run, lines 240-243: where run goes once the result is initialised *)
AfterValidate(publish_if_allowed) == IF ~publish_if_allowed THEN "returned" ELSE "act"

\* an _act_publish that never takes the update branch
UseUpdate_AlwaysCreate(existing_sys_id) == FALSE

(* _act_publish, line 130 *)
UseUpdate(existing_sys_id) == Truthy(existing_sys_id)

----------------------------------------------------------------------------
(* Inputs *)

Paths == {"a.pdf", "b.png"}
TagUniverse == {"ops", "OPS", "ops ", " ", ""}

PlanData(sd, html, kb, cat, kind, tags) ==
  [short_description |-> sd, html |-> html, kb_base_sys_id |-> kb,
   category |-> cat, valid_to |-> Absent, tagsKind |-> kind, tags |-> tags]

NoPlan == PlanData(Absent, Absent, Absent, Absent, "absent", <<>>)

Args(kb, cat, tags, atts, publish, existing) ==
  [kb_base_sys_id |-> kb, category |-> cat, tags |-> tags, attachments |-> atts,
   publish_if_allowed |-> publish, existing_sys_id |-> existing]

\* self.chat raises, or json.loads fails on its answer or gives a non-dict
ChatFailures ==
  {[kind |-> k, data |-> NoPlan] : k \in {"raises", "notjson", "notdict"}}

Start ==
  /\ pc = "plan"
  /\ plan = NoPlan
  /\ result = [published |-> FALSE]
  /\ error = ""
  /\ calls = <<>>
  /\ record = [sys_id |-> Absent]
  /\ mode = None
  /\ sys_id = None
  /\ attachment_results = <<>>
  /\ store_publish \in StorePublishAnswers
  /\ validate \in BOOLEAN

\* runs through the whole pipeline
Init ==
  /\ Start
  /\ chat \in ChatFailures \cup
       {[kind |-> "dict", data |-> PlanData(sd, html, kb, Absent, "absent", <<>>)] :
          sd \in {Absent, "Reboot"}, html \in {"<p>x</p>", "<p>x</p><script>"},
          kb \in {Absent, None, ""}}
  /\ args \in {Args("kb001", cat, <<"hardware">>, atts, publish, existing) :
          cat \in {None, "AV"},
          atts \in SeqsUpTo(Paths, MaxAttachments), publish \in BOOLEAN,
          existing \in {None, "", "art1"}}

\* dry runs over many plans: the planning and normalizing stages
InitPlan ==
  /\ Start
  /\ \/ /\ chat \in ChatFailures \cup
             {[kind |-> "dict", data |-> PlanData("Reboot", "<p>x</p>", Absent, Absent, kind, tags)] :
                kind \in {"list"},
                tags \in SeqsUpTo(TagUniverse, MaxPlanTags) \cup {<<"ops", "OPS", "ops", " ">>}}
             \cup
             {[kind |-> "dict", data |-> PlanData("Reboot", "<p>x</p>", Absent, Absent, kind, tags)] :
                kind \in {"absent", "other"}, tags \in {<<>>, <<"ops;OPS">>, <<None>>}}
        /\ args \in {Args("kb001", None, tags, <<>>, FALSE, None) :
             tags \in SeqsUpTo(TagUniverse, MaxCallerTags) \cup {<<"ops", "site-a">>}}
     \/ /\ chat \in
             {[kind |-> "dict", data |-> PlanData(sd, "<p>x</p>", kb, cat, "absent", <<>>)] :
                sd \in {Absent, "Reboot"}, kb \in {Absent, None, "", "kbPlan"},
                cat \in {Absent, "", "Network"}}
        /\ args \in {Args("kb001", cat, <<>>, <<>>, FALSE, None) : cat \in {None, "", "AV"}}
  /\ chat.kind = "dict" => (chat.data.tagsKind = "absent" => chat.data.tags = <<>>)
  /\ chat.kind = "dict" => (chat.data.tagsKind = "other" => chat.data.tags # <<>>)

----------------------------------------------------------------------------
(* run *)

Raise(e) ==
  /\ pc' = "raised"
  /\ error' = e

\* line 228: plan = self._plan_from_sop(...)
PlanFromSop ==
  /\ pc = "plan"
  /\ IF chat.kind = "raises"
     THEN Raise("LLMError") /\ UNCHANGED plan
     ELSE IF chat.kind = "notjson"
     THEN Raise("RuntimeError: LLM did not return valid JSON") /\ UNCHANGED plan
     ELSE IF chat.kind = "notdict"
     THEN Raise("RuntimeError: Expected JSON object from LLM") /\ UNCHANGED plan
     ELSE /\ plan' = plan_from_sop(chat.data, args.kb_base_sys_id, args.category, args.tags)
          /\ pc' = "normalize"
          /\ UNCHANGED error
  /\ UNCHANGED <<chat, validate, store_publish, args, result, calls, record, mode,
                 sys_id, attachment_results>>

\* line 229: plan = self._normalize_plan(plan)
NormalizePlan ==
  /\ pc = "normalize"
  /\ plan' = normalize_plan(plan)
  /\ pc' = "validate"
  /\ UNCHANGED <<chat, validate, store_publish, args, result, error, calls, record,
                 mode, sys_id, attachment_results>>

\* lines 230-241: validate, fingerprint, the result, and the return of a dry run
ValidatePlan ==
  /\ pc = "validate"
  /\ IF ValidateRaises(validate, plan)
     THEN Raise("ValueError: Plan failed schema validation") /\ UNCHANGED result
     ELSE /\ result' = [plan |-> plan, fingerprint |-> RunFingerprint(plan),
                        mode |-> ResultMode(args.existing_sys_id), published |-> FALSE]
          /\ pc' = AfterValidate(args.publish_if_allowed)
          /\ UNCHANGED error
  /\ UNCHANGED <<chat, validate, store_publish, args, plan, calls, record, mode,
                 sys_id, attachment_results>>

\* the arguments of the write, lines 111-128
Payload(p) ==
  [short_description |-> p.short_description, text |-> p.html,
   kb |-> p.kb_base_sys_id,
   category |-> IF Truthy(p.category) THEN p.category ELSE Absent,
   valid_to |-> IF Truthy(p.valid_to) THEN p.valid_to ELSE Absent,
   tags |-> p.tags]

\* one entry of the call log: the call, its arguments and whether it returned
Call(op, id, path, payload, outcome) ==
  [op |-> op, id |-> id, path |-> path, payload |-> payload, outcome |-> outcome]

NoPayload == Payload(NoPlan)

\* line 111: plan["short_description"] of a plan without the key
ActKeyError ==
  /\ pc = "act"
  /\ plan.short_description = Absent
  /\ Raise("KeyError: short_description")
  /\ UNCHANGED <<chat, validate, store_publish, args, plan, result, calls, record,
                 mode, sys_id, attachment_results>>

\* lines 130-139: sn.kb_update returns
ActUpdate ==
  /\ pc = "act"
  /\ plan.short_description # Absent
  /\ UseUpdate(args.existing_sys_id)
  /\ calls' = Append(calls, Call("update", args.existing_sys_id, None, Payload(plan), "returned"))
  /\ \E r \in KbUpdateResponses(args.existing_sys_id) : record' = r
  /\ mode' = "update"
  /\ sys_id' = args.existing_sys_id
  /\ pc' = "attach"
  /\ UNCHANGED <<chat, validate, store_publish, args, plan, result, error,
                 attachment_results>>

\* lines 140-148: sn.kb_create returns
ActCreate ==
  /\ pc = "act"
  /\ plan.short_description # Absent
  /\ ~UseUpdate(args.existing_sys_id)
  /\ calls' = Append(calls, Call("create", None, None, Payload(plan), "returned"))
  /\ \E r \in KbCreateResponses : record' = r /\ sys_id' = Get(r.sys_id)
  /\ mode' = "create"
  /\ pc' = "attach"
  /\ UNCHANGED <<chat, validate, store_publish, args, plan, result, error,
                 attachment_results>>

\* lines 130-148: sn.kb_update or sn.kb_create raises
ActWriteRaises ==
  /\ pc = "act"
  /\ plan.short_description # Absent
  /\ calls' = Append(calls,
       IF UseUpdate(args.existing_sys_id)
       THEN Call("update", args.existing_sys_id, None, Payload(plan), "raised")
       ELSE Call("create", None, None, Payload(plan), "raised"))
  /\ \E e \in TransportErrors : Raise(e)
  /\ UNCHANGED <<chat, validate, store_publish, args, plan, result, record, mode,
                 sys_id, attachment_results>>

\* the path of the next upload
NextPath == args.attachments[Len(attachment_results) + 1]

\* what the loop appends for an upload that returned r, line 152
AttachmentEntry(path, r) == r

\* lines 151-152: one upload returns
Attach ==
  /\ pc = "attach"
  /\ Len(attachment_results) < Len(args.attachments)
  /\ calls' = Append(calls, Call("attach", sys_id, NextPath, NoPayload, "returned"))
  /\ \E r \in KbAttachResponses :
       attachment_results' = Append(attachment_results, AttachmentEntry(NextPath, r))
  /\ UNCHANGED <<chat, validate, store_publish, args, pc, plan, result, error, record,
                 mode, sys_id>>

\* lines 151-152: one upload raises, and the exception leaves run
AttachRaises ==
  /\ pc = "attach"
  /\ Len(attachment_results) < Len(args.attachments)
  /\ calls' = Append(calls, Call("attach", sys_id, NextPath, NoPayload, "raised"))
  /\ \E e \in TransportErrors : Raise(e)
  /\ UNCHANGED <<chat, validate, store_publish, args, plan, result, record, mode,
                 sys_id, attachment_results>>

\* lines 154-159: the record _act_publish returns
PublishRecord(r, id, m, results) ==
  LET base == [sys_id |-> IF r.sys_id = Absent THEN id ELSE r.sys_id, mode |-> m]
  IN IF results # <<>> THEN base @@ [attachments |-> results] ELSE base

\* line 245, without a sys_id
MissingSysId == [ok |-> FALSE, error |-> "Missing sys_id"]

\* lines 247-253
ResultUpdate(res, publish_record, verification) ==
  [plan |-> res.plan, fingerprint |-> res.fingerprint, mode |-> res.mode,
   published |-> TRUE, service_now |-> publish_record, verification |-> verification]

\* lines 154-159 and 244-254 when the record has no sys_id: no re-read
ActReturnNoSysId ==
  /\ pc = "attach"
  /\ Len(attachment_results) = Len(args.attachments)
  /\ LET publish_record == PublishRecord(record, sys_id, mode, attachment_results)
     IN /\ ~Truthy(publish_record.sys_id)
        /\ record' = publish_record
        /\ result' = ResultUpdate(result, publish_record, MissingSysId)
  /\ pc' = "returned"
  /\ UNCHANGED <<chat, validate, store_publish, args, plan, error, calls, mode,
                 sys_id, attachment_results>>

\* lines 154-159 and 244: _act_publish returns a record with a sys_id
ActReturn ==
  /\ pc = "attach"
  /\ Len(attachment_results) = Len(args.attachments)
  /\ LET publish_record == PublishRecord(record, sys_id, mode, attachment_results)
     IN /\ Truthy(publish_record.sys_id)
        /\ record' = publish_record
  /\ pc' = "verify"
  /\ UNCHANGED <<chat, validate, store_publish, args, plan, result, error, calls,
                 mode, sys_id, attachment_results>>

\* a dict with the key only when the value is truthy, lines 174-177
EmptyDict == [k \in {} |-> None]
CategoryIfAny(r) == IF Truthy(r.category) THEN [category |-> r.category] ELSE EmptyDict
ValidToIfAny(r) == IF Truthy(r.valid_to) THEN [valid_to |-> r.valid_to] ELSE EmptyDict

\* _verify, lines 167-177 (the store's answers of the model carry no tags)
VerifyNormalized(id, r) ==
  [sys_id |-> GetOr(r.sys_id, id),
   number |-> Get(r.number),
   short_description |-> GetOr(r.short_description, ""),
   html |-> IF Truthy(r.text) THEN r.text
            ELSE IF Truthy(r.article_body) THEN r.article_body ELSE "",
   kb_base_sys_id |-> Get(r.kb_knowledge_base)]
    @@ CategoryIfAny(r) @@ ValidToIfAny(r)

\* _verify, lines 198-203
VerifyFingerprint(normalized) ==
  content_fingerprint([short_description |-> normalized.short_description,
                       html |-> normalized.html])

\* _verify, lines 184-196 and 205-210
VerifyResult(validator, id, r) ==
  LET normalized == VerifyNormalized(id, r)
      ok == ~validator \/ SchemaOk(normalized)
  IN [ok |-> ok,
      errors |-> IF ok THEN <<>> ELSE <<"schema violation">>,
      record |-> r,
      normalized |-> normalized @@ [fingerprint |-> VerifyFingerprint(normalized)]]

\* _verify, lines 164-165
VerifyReadFailure(e) == [ok |-> FALSE, error |-> e, record |-> None]

\* lines 245-254: sn.kb_get returns
Verify ==
  /\ pc = "verify"
  /\ calls' = Append(calls, Call("get", record.sys_id, None, NoPayload, "returned"))
  /\ \E r \in KbGetResponses(record.sys_id, plan.short_description, plan.html,
                             plan.kb_base_sys_id, Payload(plan).category) :
       result' = ResultUpdate(result, record, VerifyResult(validate, record.sys_id, r))
  /\ pc' = "returned"
  /\ UNCHANGED <<chat, validate, store_publish, args, plan, error, record, mode,
                 sys_id, attachment_results>>

\* a _verify without the except clause: the read failure leaves run
VerifyReadFails_Propagates ==
  /\ pc = "verify"
  /\ calls' = Append(calls, Call("get", record.sys_id, None, NoPayload, "raised"))
  /\ \E e \in TransportErrors : Raise(e)
  /\ UNCHANGED <<chat, validate, store_publish, args, plan, result, record, mode,
                 sys_id, attachment_results>>

\* lines 245-254: sn.kb_get raises
VerifyReadFails ==
  /\ pc = "verify"
  /\ calls' = Append(calls, Call("get", record.sys_id, None, NoPayload, "raised"))
  /\ \E e \in TransportErrors :
       result' = ResultUpdate(result, record, VerifyReadFailure(e))
  /\ pc' = "returned"
  /\ UNCHANGED <<chat, validate, store_publish, args, plan, error, record, mode,
                 sys_id, attachment_results>>

Next ==
  \/ PlanFromSop
  \/ NormalizePlan
  \/ ValidatePlan
  \/ ActKeyError
  \/ ActUpdate
  \/ ActCreate
  \/ ActWriteRaises
  \/ Attach
  \/ AttachRaises
  \/ ActReturnNoSysId
  \/ ActReturn
  \/ Verify
  \/ VerifyReadFails

Spec == Init /\ [][Next]_vars

NextPlan ==
  \/ PlanFromSop
  \/ NormalizePlan
  \/ ValidatePlan

SpecPlan == InitPlan /\ [][NextPlan]_vars

----------------------------------------------------------------------------
(* The call log *)

OpIdx(op) == {i \in DOMAIN calls : calls[i].op = op}
Writes == OpIdx("create") \cup OpIdx("update")
Finished == pc \in {"returned", "raised"}
PlanningErrors ==
  {"LLMError",
   "RuntimeError: LLM did not return valid JSON",
   "RuntimeError: Expected JSON object from LLM"}
SchemaError == "ValueError: Plan failed schema validation"
DryRunKeys == {"plan", "fingerprint", "mode", "published"}
FullKeys == DryRunKeys \cup {"service_now", "verification"}

----------------------------------------------------------------------------
(* C1 *)

----------------------------------------------------------------------------
(* C2 *)

\* C2: once create has answered without an identifier, run fails with
\* MissingIdentifier: no upload and no re-read follow, and run does not return
\* a result.
C2_MissingIdentifierStops ==
  (/\ OpIdx("create") # {}
   /\ \A i \in OpIdx("create") : calls[i].outcome = "returned"
   /\ mode = "create"
   /\ ~Truthy(sys_id)) =>
    /\ OpIdx("attach") = {}
    /\ OpIdx("get") = {}
    /\ pc # "returned"

----------------------------------------------------------------------------
(* C3 *)

\* C3: with a validator available, a normalized plan that violates the schema
\* makes run raise the schema-violation error, and the store is never called.
C3_SchemaViolationAborts ==
  (/\ validate
   /\ pc \notin {"plan", "normalize", "validate"}
   /\ ~(pc = "raised" /\ error \in PlanningErrors)
   /\ ~SchemaOk(plan)) =>
    /\ pc = "raised"
    /\ error = SchemaError
    /\ calls = <<>>

C3_Witness ==
  /\ validate
  /\ ~SchemaOk(plan)
  /\ pc = "raised"
  /\ error = SchemaError
  /\ args.publish_if_allowed

----------------------------------------------------------------------------
(* C4 *)

----------------------------------------------------------------------------
(* C5 *)

ReadFailed == \E g \in OpIdx("get") : calls[g].outcome = "raised"

\* the structured outcome of a failed publish transition
FailedPublishOutcome(res) ==
  /\ "publish" \in DOMAIN res
  /\ res.publish.attempted = TRUE
  /\ res.publish.status = "failed"
  /\ res.publish.error # ""

----------------------------------------------------------------------------
(* C6 *)

\* the tags the plan and the caller provide, plan first
ProvidedTags ==
  (IF chat.data.tagsKind = "list" THEN chat.data.tags ELSE <<>>) \o args.tags

NotBlank(t) == strip(t) # ""
NotEmpty(t) == t # ""
Stripped(ts) == [i \in DOMAIN ts |-> strip(ts[i])]
FirstIdx(ts, t) == CHOOSE i \in DOMAIN ts : ts[i] = t /\ \A j \in 1..(i - 1) : ts[j] # t

\* out holds each entry of src once, in the order of first appearance in src
FirstSeenOrder(out, src) ==
  /\ {out[i] : i \in DOMAIN out} = {src[i] : i \in DOMAIN src}
  /\ \A i, j \in DOMAIN out : i < j => out[i] # out[j]
  /\ \A i, j \in DOMAIN out : i < j => FirstIdx(src, out[i]) < FirstIdx(src, out[j])

\* C6 as stated: the returned plan's tags are the plan's tags followed by the
\* caller's, with empty and whitespace-only entries dropped and duplicates
\* (exact match) removed in first-seen order.
C6_Original ==
  (pc = "returned" /\ chat.data.tagsKind \in {"list", "absent"}) =>
    FirstSeenOrder(result.plan.tags, SelectSeq(ProvidedTags, NotBlank))

\* C6 amended: the returned plan's tags are the plan's tags (when a list)
\* followed by the caller's, each trimmed of surrounding whitespace, with the
\* entries that are then empty dropped and duplicates (exact match after
\* trimming) removed in first-seen order; so the tags hold no duplicate and no
\* empty or whitespace-only entry.
C6_TagsMerged ==
  pc = "returned" =>
    /\ FirstSeenOrder(result.plan.tags, SelectSeq(Stripped(ProvidedTags), NotEmpty))
    /\ \A i \in DOMAIN result.plan.tags : NotBlank(result.plan.tags[i])

C6_Witness ==
  /\ pc = "returned"
  /\ chat.data.tagsKind = "list"
  /\ chat.data.tags = <<"ops", "OPS", "ops", " ">>
  /\ args.tags = <<"ops", "site-a">>
  /\ result.plan.tags = <<"ops", "OPS", "site-a">>

----------------------------------------------------------------------------
(* C7 *)

\* C7: the plan's kb_base_sys_id is the generated value when that is present
\* and non-empty, and the caller's value otherwise.
C7_KbBaseDefault ==
  (chat.kind = "dict" /\ pc \notin {"plan"}) =>
    plan.kb_base_sys_id =
      IF Truthy(chat.data.kb_base_sys_id) THEN chat.data.kb_base_sys_id
      ELSE args.kb_base_sys_id

----------------------------------------------------------------------------
(* C8 *)

\* C8: uploads follow the write, one per path in the order given, each against
\* the record's identifier; nothing is uploaded after a failed upload; in the
\* output each upload result comes with its source path.
C8_Attachments ==
  /\ \A a \in OpIdx("attach") :
       /\ \E w \in Writes : w < a /\ calls[w].outcome = "returned"
       /\ calls[a].path = args.attachments[a - 1]
       /\ Truthy(calls[a].id)
       /\ \A b \in OpIdx("attach") : b < a => calls[b].outcome = "returned"
  /\ (pc = "returned" /\ "service_now" \in DOMAIN result
        /\ "attachments" \in DOMAIN result.service_now) =>
       \A i \in DOMAIN result.service_now.attachments :
         /\ "path" \in DOMAIN result.service_now.attachments[i]
         /\ result.service_now.attachments[i].path = args.attachments[i]

----------------------------------------------------------------------------
(* C9 *)

----------------------------------------------------------------------------
(* C10 *)

\* C10: in update mode the uploads, the re-read and the reported sys_id all use
\* the caller's existing identifier, whatever the update answered.
C10_UpdateKeepsIdentifier ==
  (Truthy(args.existing_sys_id) /\ args.publish_if_allowed) =>
    /\ \A a \in OpIdx("attach") : calls[a].id = args.existing_sys_id
    /\ \A g \in OpIdx("get") : calls[g].id = args.existing_sys_id
    /\ pc = "returned" =>
         /\ result.service_now.sys_id = args.existing_sys_id
         /\ OpIdx("get") # {}

====
